---- MODULE Spec2Model ----
(***************************************************************************)
(* A model of rbt's job fingerprinting (src/src/job.rs, Job::from_glue)    *)
(* and of the command-line driver (src/src/cli.rs, Cli::run).              *)
(*                                                                         *)
(* Strings that the code inspects character by character (paths) are       *)
(* sequences of one-character strings.  A PathBuf is modelled by the       *)
(* sequence of components std::path yields for it on a Unix target, which  *)
(* is what PathBuf's Eq and Hash are defined over.  The standard library's *)
(* DefaultHasher is modelled as collision free: the value it finishes with *)
(* is the sequence of values that were fed to it.                          *)
(***************************************************************************)
EXTENDS Integers, Sequences, FiniteSets, TLC

VARIABLES job, path_to_hash, proc, result,
          job2, path_to_hash2, proc2, result2, rel, phase,
          pc, print_root_output_paths, worker_threads, roots, cursor,
          printed, ret, log

jobVars == <<job, path_to_hash, proc, result,
             job2, path_to_hash2, proc2, result2, rel, phase>>
cliVars == <<pc, print_root_output_paths, worker_threads, roots, cursor,
             printed, ret, log>>
vars == <<jobVars, cliVars>>

(***************************************************************************)
(* Bounds of the model.                                                    *)
(***************************************************************************)
MaxArgs == 2
MaxInputs == 2
MaxOutputs == 2
MaxRoots == 2
MaxWorkers == 2

(***************************************************************************)
(* Strings.                                                                *)
(***************************************************************************)
Code(c) == CASE c = "." -> 46
             [] c = "/" -> 47
             [] c = "a" -> 97
             [] c = "b" -> 98

\* str's Ord: byte-wise lexicographic, a proper prefix sorts first.
RECURSIVE StrLessFrom(_, _, _)
StrLessFrom(s, t, i) ==
    IF i > Len(s) THEN i <= Len(t)
    ELSE IF i > Len(t) THEN FALSE
    ELSE IF s[i] = t[i] THEN StrLessFrom(s, t, i + 1)
    ELSE Code(s[i]) < Code(t[i])

StrLess(s, t) == StrLessFrom(s, t, 1)

\* Insert s into the sorted sequence q, after the elements not greater.
RECURSIVE InsertSorted(_, _)
InsertSorted(s, q) ==
    IF q = <<>> THEN <<s>>
    ELSE IF StrLess(s, Head(q)) THEN <<s>> \o q
    ELSE <<Head(q)>> \o InsertSorted(s, Tail(q))

\* The list left in the order it was declared in.
Unsorted(q) == q

\* Itertools::sorted over the strings of a list.
RECURSIVE sorted(_)
sorted(q) == IF q = <<>> THEN <<>> ELSE InsertSorted(q[Len(q)], sorted(SubSeq(q, 1, Len(q) - 1)))

(***************************************************************************)
(* std::path on Unix: Path::components.                                    *)
(***************************************************************************)
RootDir == [kind |-> "RootDir", name |-> <<>>]
CurDir == [kind |-> "CurDir", name |-> <<>>]
ParentDir == [kind |-> "ParentDir", name |-> <<>>]
Normal(n) == [kind |-> "Normal", name |-> n]

\* The pieces of s between separators, empty ones included.
RECURSIVE SplitFrom(_, _, _)
SplitFrom(s, i, cur) ==
    IF i > Len(s) THEN <<cur>>
    ELSE IF s[i] = "/" THEN <<cur>> \o SplitFrom(s, i + 1, <<>>)
    ELSE SplitFrom(s, i + 1, Append(cur, s[i]))

RECURSIVE ComponentsFrom(_, _, _)
ComponentsFrom(segs, k, hasRoot) ==
    IF k > Len(segs) THEN <<>>
    ELSE LET seg == segs[k]
             here == IF seg = <<>> THEN <<>>
                     ELSE IF seg = <<".">>
                          THEN (IF k = 1 /\ ~hasRoot THEN <<CurDir>> ELSE <<>>)
                     ELSE IF seg = <<".", ".">> THEN <<ParentDir>>
                     ELSE <<Normal(seg)>>
         IN here \o ComponentsFrom(segs, k + 1, hasRoot)

components(s) ==
    LET hasRoot == Len(s) > 0 /\ s[1] = "/"
    IN (IF hasRoot THEN <<RootDir>> ELSE <<>>)
       \o ComponentsFrom(SplitFrom(s, 1, <<>>), 1, hasRoot)

\* PathBuf::from: the value PathBuf's Eq and Hash see.
PathBuf(s) == components(s)

(***************************************************************************)
(* The hasher.  A hasher is the sequence of the values written to it so    *)
(* far; every write appends one entry, so finish() of two hashers agrees   *)
(* exactly when the same values were written in the same order.            *)
(***************************************************************************)
NoCommand == [tool |-> "", args |-> <<>>]

CommandEntry(c) == [kind |-> "command", command |-> c, str |-> "", path |-> <<>>]
StringEntry(s) == [kind |-> "string", command |-> NoCommand, str |-> s, path |-> <<>>]
PathEntry(p) == [kind |-> "path", command |-> NoCommand, str |-> "", path |-> p]

\* A hasher keyed by the process, as RandomState would build it.
RandomStateHasher(p) == <<StringEntry(p)>>

\* DefaultHasher::new(): fixed keys, the same in every process.
DefaultHasherNew(p) == <<>>

\* The command hashed as a tool and the bag of its arguments.
ArgsOrdered(a) ==
    SelectSeq(a, LAMBDA v : v = "x") \o SelectSeq(a, LAMBDA v : v # "x")

HashCommandUnordered(hasher, command) ==
    Append(hasher, CommandEntry([command EXCEPT !.args = ArgsOrdered(command.args)]))

\* unwrapped.command.hash(&mut hasher): the derived Hash of the command value.
HashCommand(hasher, command) == Append(hasher, CommandEntry(command))

\* hash.hash(&mut hasher), for the String found in path_to_hash.
HashString(hasher, s) == Append(hasher, StringEntry(s))

\* output.hash(&mut hasher), for a PathBuf.
HashPath(hasher, p) == Append(hasher, PathEntry(p))

(***************************************************************************)
(* The error messages of from_glue: the text around the displayed path.    *)
(***************************************************************************)
NoError == <<>>

\* The backquote the messages put around the path.
Backquote == "<backquote>"

NoHashMsg(s) == <<"couldn't find a hash for ", Backquote>> \o s \o <<Backquote>>

AbsoluteMsg(s) ==
    <<"Got ", Backquote>> \o s
    \o <<Backquote, " as an output, but absolute paths are not allowed as outputs. Remove the absolute prefix to fix this!">>

ParentMsg(s) ==
    <<"Got ", Backquote>> \o s
    \o <<Backquote, " as an output, but relative paths containing ", Backquote, "..", Backquote,
         " are not allowed as inputs. Remove the ", Backquote, "..", Backquote, " to fix this!">>

(***************************************************************************)
(* Job::from_glue.                                                         *)
(***************************************************************************)
\* The input loop that skips an input without a hash.
RECURSIVE InputLoopSkipMissing(_, _, _, _, _)
InputLoopSkipMissing(strs, i, hasher, input_files, lookup) ==
    IF i > Len(strs) THEN [err |-> NoError, hasher |-> hasher, input_files |-> input_files]
    ELSE LET path == PathBuf(strs[i])
         IN IF path \in DOMAIN lookup
            THEN InputLoopSkipMissing(strs, i + 1, HashString(hasher, lookup[path]),
                                      input_files \cup {path}, lookup)
            ELSE InputLoopSkipMissing(strs, i + 1, hasher, input_files \cup {path}, lookup)

\* The input loop that also folds the path of each input into the hash.
RECURSIVE InputLoopWithPath(_, _, _, _, _)
InputLoopWithPath(strs, i, hasher, input_files, lookup) ==
    IF i > Len(strs) THEN [err |-> NoError, hasher |-> hasher, input_files |-> input_files]
    ELSE LET path == PathBuf(strs[i])
         IN IF path \in DOMAIN lookup
            THEN InputLoopWithPath(strs, i + 1,
                                   HashString(HashPath(hasher, path), lookup[path]),
                                   input_files \cup {path}, lookup)
            ELSE [err |-> NoHashMsg(strs[i]), hasher |-> hasher, input_files |-> input_files]

\* for path_str in unwrapped.inputFiles.iter().sorted() { ... }, from its i-th turn.
RECURSIVE InputLoop(_, _, _, _, _)
InputLoop(strs, i, hasher, input_files, lookup) ==
    IF i > Len(strs) THEN [err |-> NoError, hasher |-> hasher, input_files |-> input_files]
    ELSE LET path == PathBuf(strs[i])
         IN IF path \in DOMAIN lookup
            THEN InputLoop(strs, i + 1, HashString(hasher, lookup[path]),
                           input_files \cup {path}, lookup)
            ELSE [err |-> NoHashMsg(strs[i]), hasher |-> hasher, input_files |-> input_files]

\* The component check without the `..` arm.
RECURSIVE ComponentCheckNoParent(_, _, _)
ComponentCheckNoParent(s, comps, k) ==
    IF k > Len(comps) THEN NoError
    ELSE IF comps[k].kind = "RootDir" THEN AbsoluteMsg(s)
    ELSE ComponentCheckNoParent(s, comps, k + 1)

\* The component check that reports both rules with one message.
RECURSIVE ComponentCheckOneMsg(_, _, _)
ComponentCheckOneMsg(s, comps, k) ==
    IF k > Len(comps) THEN NoError
    ELSE IF comps[k].kind \in {"RootDir", "ParentDir"} THEN AbsoluteMsg(s)
    ELSE ComponentCheckOneMsg(s, comps, k + 1)

\* for component in output.components() { match component { ... } }, from the
\* k-th component: the message of the first bail!, or NoError.
RECURSIVE ComponentCheck(_, _, _)
ComponentCheck(s, comps, k) ==
    IF k > Len(comps) THEN NoError
    ELSE IF comps[k].kind = "RootDir" THEN AbsoluteMsg(s)
    ELSE IF comps[k].kind = "ParentDir" THEN ParentMsg(s)
    ELSE ComponentCheck(s, comps, k + 1)

\* The output loop without the `outputs.contains` test.
RECURSIVE OutputLoopNoSkip(_, _, _, _)
OutputLoopNoSkip(strs, i, hasher, outputs) ==
    IF i > Len(strs) THEN [err |-> NoError, hasher |-> hasher, outputs |-> outputs]
    ELSE LET output == PathBuf(strs[i])
             e == ComponentCheck(strs[i], output, 1)
         IN IF e # NoError
            THEN [err |-> e, hasher |-> hasher, outputs |-> outputs]
            ELSE OutputLoopNoSkip(strs, i + 1, HashPath(hasher, output), outputs \cup {output})

\* for output_str in unwrapped.outputs.iter().sorted() { ... }, from its i-th turn.
RECURSIVE OutputLoop(_, _, _, _)
OutputLoop(strs, i, hasher, outputs) ==
    IF i > Len(strs) THEN [err |-> NoError, hasher |-> hasher, outputs |-> outputs]
    ELSE LET output == PathBuf(strs[i])
             e == ComponentCheck(strs[i], output, 1)
         IN IF output \in outputs
            THEN OutputLoop(strs, i + 1, hasher, outputs)
            ELSE IF e # NoError
            THEN [err |-> e, hasher |-> hasher, outputs |-> outputs]
            ELSE OutputLoop(strs, i + 1, HashPath(hasher, output), outputs \cup {output})

\* Err(..) and Ok(Job { .. }) as one record shape.
Err(e) == [ok |-> FALSE, id |-> <<>>, command |-> NoCommand,
           input_files |-> {}, outputs |-> {}, err |-> e]
Ok(id, command, input_files, outputs) ==
    [ok |-> TRUE, id |-> id, command |-> command,
     input_files |-> input_files, outputs |-> outputs, err |-> NoError]

\* Id(hasher.finish())
Id(hasher) == hasher

from_glue(gjob, lookup, p) ==
    LET h0 == HashCommand(DefaultHasherNew(p), gjob.command)
        ins == InputLoop(sorted(gjob.inputFiles), 1, h0, {}, lookup)
        outs == OutputLoop(sorted(gjob.outputs), 1, ins.hasher, {})
    IN IF ins.err # NoError THEN Err(ins.err)
       ELSE IF outs.err # NoError THEN Err(outs.err)
       ELSE Ok(Id(outs.hasher), gjob.command, ins.input_files, outs.outputs)

(***************************************************************************)
(* The job descriptions, lookups and processes from_glue is run on.        *)
(***************************************************************************)
BSeq(S, n) == UNION {[1..k -> S] : k \in 0..n}

\* "a" "a/" "b" "./a" "" "/a" "/" ".." "a/.." "..a"
PathStrs ==
    { <<"a">>, <<"a", "/">>, <<"b">>, <<".", "/", "a">>, <<>>,
      <<"/", "a">>, <<"/">>, <<".", ".">>, <<"a", "/", ".", ".">>, <<".", ".", "a">> }

\* "a" "a/" "/a" "b"
InputStrs == { <<"a">>, <<"a", "/">>, <<"/", "a">>, <<"b">> }

Hashes == {"h1", "h2"}
Args == {"x", "y"}
Procs == {"p1", "p2"}

BaseCommand == [tool |-> "t", args |-> <<"x">>]

GlueJob(command, inputFiles, outputs) ==
    [command |-> command, inputFiles |-> inputFiles, outputs |-> outputs]

\* The PathBufs a list of path strings names.
Keys(strs) == {PathBuf(strs[i]) : i \in 1..Len(strs)}

\* The lookups that hold hashes for some of the paths of strs.
Lookups(strs) == UNION {[K -> Hashes] : K \in SUBSET Keys(strs)}

\* Descriptions that vary the outputs, the inputs and the arguments.
OutputCases ==
    {<<GlueJob(BaseCommand, ins, outs), l>> :
        outs \in BSeq(PathStrs, MaxOutputs),
        ins \in {<< <<"a">> >>},
        l \in {[k \in {} |-> "h1"], [k \in {PathBuf(<<"a">>)} |-> "h1"]}}

InputCases ==
    UNION {{<<GlueJob(BaseCommand, ins, << <<"b">> >>), l>> : l \in Lookups(ins)} :
              ins \in BSeq(InputStrs, MaxInputs)}

CommandCases ==
    {<<GlueJob([tool |-> "t", args |-> a], << <<"a">> >>, << <<"b">> >>),
       [k \in {PathBuf(<<"a">>)} |-> "h1"]>> : a \in BSeq(Args, MaxArgs)}

NoResult == Err(NoError)

CliIdle ==
    /\ pc = "idle"
    /\ print_root_output_paths = FALSE
    /\ worker_threads = 0
    /\ roots = 0
    /\ cursor = 0
    /\ printed = <<>>
    /\ ret = "none"
    /\ log = <<>>

Init ==
    /\ \E c \in OutputCases \cup InputCases \cup CommandCases :
          /\ job = c[1]
          /\ path_to_hash = c[2]
          /\ job2 = c[1]
          /\ path_to_hash2 = c[2]
    /\ proc = "p1"
    /\ proc2 = "p1"
    /\ result = NoResult
    /\ result2 = NoResult
    /\ rel = "none"
    /\ phase = "start"
    /\ CliIdle

\* Job::from_glue(job, &path_to_hash)
FromGlue ==
    /\ phase = "start"
    /\ result' = from_glue(job, path_to_hash, proc)
    /\ phase' = "called"
    /\ UNCHANGED <<job, path_to_hash, proc, job2, path_to_hash2, proc2, result2, rel>>
    /\ UNCHANGED cliVars

\* A second call, on a description related to the first as r says.
Second(j, l, p, r) ==
    /\ job2' = j
    /\ path_to_hash2' = l
    /\ proc2' = p
    /\ result2' = from_glue(j, l, p)
    /\ rel' = r
    /\ phase' = "compared"
    /\ UNCHANGED <<job, path_to_hash, proc, result>>
    /\ UNCHANGED cliVars

Swap(q, i, j) == [q EXCEPT ![i] = q[j], ![j] = q[i]]

PermuteInputs ==
    /\ phase = "called"
    /\ \E i, j \in 1..Len(job.inputFiles) :
        /\ i < j
        /\ Second([job EXCEPT !.inputFiles = Swap(@, i, j)], path_to_hash, proc,
                  "permute_inputs")

PermuteOutputs ==
    /\ phase = "called"
    /\ \E i, j \in 1..Len(job.outputs) :
        /\ i < j
        /\ Second([job EXCEPT !.outputs = Swap(@, i, j)], path_to_hash, proc,
                  "permute_outputs")

\* One more declaration of a path that is already an input.
RepeatInput ==
    /\ phase = "called"
    /\ \E i \in 1..Len(job.inputFiles), s \in PathStrs :
        /\ PathBuf(s) = PathBuf(job.inputFiles[i])
        /\ Second([job EXCEPT !.inputFiles = Append(@, s)], path_to_hash, proc,
                  "repeat_input")

\* One more declaration of a path that is already an output.
RepeatOutput ==
    /\ phase = "called"
    /\ \E i \in 1..Len(job.outputs), s \in PathStrs :
        /\ PathBuf(s) = PathBuf(job.outputs[i])
        /\ Second([job EXCEPT !.outputs = Append(@, s)], path_to_hash, proc,
                  "repeat_output")

\* The i-th input delivered under another path, with the content it had.
RenameInput ==
    /\ phase = "called"
    /\ \E i \in 1..Len(job.inputFiles), s \in PathStrs :
        /\ PathBuf(s) \notin Keys(job.inputFiles)
        /\ PathBuf(job.inputFiles[i]) \in DOMAIN path_to_hash
        /\ Second([job EXCEPT !.inputFiles[i] = s],
                  [k \in DOMAIN path_to_hash \cup {PathBuf(s)} |->
                      IF k = PathBuf(s) THEN path_to_hash[PathBuf(job.inputFiles[i])]
                      ELSE path_to_hash[k]],
                  proc, "rename_input")

\* The same arguments in another order.
ReorderArgs ==
    /\ phase = "called"
    /\ \E i, j \in 1..Len(job.command.args) :
        /\ i < j
        /\ job.command.args[i] # job.command.args[j]
        /\ Second([job EXCEPT !.command.args = Swap(@, i, j)], path_to_hash, proc,
                  "reorder_args")

\* The same description in some process, with a lookup that differs on the
\* paths that are not inputs of the job.
OtherLookup ==
    /\ phase = "called"
    /\ \E h \in Hashes, p \in Procs :
        LET others == {PathBuf(s) : s \in PathStrs} \ Keys(job.inputFiles)
        IN Second(job,
                  [k \in DOMAIN path_to_hash \cup others |->
                      IF k \in others THEN h ELSE path_to_hash[k]],
                  p, "other_lookup")

\* The same description and lookup in another process.
Rerun ==
    /\ phase = "called"
    /\ \E p \in Procs \ {proc} : Second(job, path_to_hash, p, "rerun")

Next ==
    \/ FromGlue
    \/ PermuteInputs
    \/ PermuteOutputs
    \/ RepeatInput
    \/ RepeatOutput
    \/ RenameInput
    \/ ReorderArgs
    \/ OtherLookup
    \/ Rerun

Spec == Init /\ [][Next]_vars

(***************************************************************************)
(* Properties of Job::from_glue.                                           *)
(***************************************************************************)
\* The calls made so far: description, lookup and what from_glue returned.
Runs ==
    (IF phase \in {"called", "compared"} THEN {<<job, path_to_hash, result>>} ELSE {})
    \cup (IF phase = "compared" THEN {<<job2, path_to_hash2, result2>>} ELSE {})

IsAbsolute(s) == Len(s) > 0 /\ s[1] = "/"

HasParentDir(s) ==
    LET segs == SplitFrom(s, 1, <<>>) IN \E k \in 1..Len(segs) : segs[k] = <<".", ".">>

AllHashed(j, l) == \A i \in 1..Len(j.inputFiles) : PathBuf(j.inputFiles[i]) \in DOMAIN l

\* The content hashes of the inputs, in the sorted order of the declared strings.
HashSeq(j, l) == LET q == sorted(j.inputFiles) IN [i \in 1..Len(q) |-> l[PathBuf(q[i])]]

PathEntries(id) == Len(SelectSeq(id, LAMBDA e : e.kind = "path"))

\* C1: a description with an absolute output or an output containing `..` is
\* rejected, wherever the output sits and whatever else is declared; every Job
\* returned has only relative outputs without `..`.
C1_OutputSafety ==
    \A r \in Runs :
        /\ (\E i \in 1..Len(r[1].outputs) :
               IsAbsolute(r[1].outputs[i]) \/ HasParentDir(r[1].outputs[i])) => ~r[3].ok
        /\ r[3].ok =>
              \A p \in r[3].outputs : \A k \in 1..Len(p) :
                  p[k].kind \notin {"RootDir", "ParentDir"}

\* C1 witness: an unsafe output in the middle of a list that also repeats a safe
\* output, all inputs hashed, rejected.
C1_Witness ==
    /\ phase = "compared"
    /\ rel = "repeat_output"
    /\ Len(job2.outputs) = 3
    /\ HasParentDir(job2.outputs[2])
    /\ ~HasParentDir(job2.outputs[1]) /\ ~IsAbsolute(job2.outputs[1])
    /\ AllHashed(job2, path_to_hash2)
    /\ ~result2.ok

\* C2: permuting the input list or the output list changes neither whether a Job
\* is returned nor its Id, input_files and outputs.
C2_OrderIndependence ==
    (phase = "compared" /\ rel \in {"permute_inputs", "permute_outputs"}) =>
        /\ result2.ok = result.ok
        /\ result2.id = result.id
        /\ result2.input_files = result.input_files
        /\ result2.outputs = result.outputs

\* C2 witness: two inputs with different hashes declared in the other order.
C2_Witness ==
    /\ phase = "compared"
    /\ rel = "permute_inputs"
    /\ job2.inputFiles # job.inputFiles
    /\ result.ok /\ result2.ok
    /\ Len(job.inputFiles) = 2
    /\ path_to_hash[PathBuf(job.inputFiles[1])] # path_to_hash[PathBuf(job.inputFiles[2])]

\* C3: an input without a hash is never skipped: the call fails with the message
\* naming such an input, and a Job is returned only if every input has a hash.
C3_MissingInputHash ==
    \A r \in Runs :
        /\ ~AllHashed(r[1], r[2]) =>
              /\ ~r[3].ok
              /\ \E i \in 1..Len(r[1].inputFiles) :
                    /\ PathBuf(r[1].inputFiles[i]) \notin DOMAIN r[2]
                    /\ r[3].err = NoHashMsg(r[1].inputFiles[i])
        /\ r[3].ok => AllHashed(r[1], r[2])

\* C3 witness: two inputs, one of them hashed and one not.
C3_Witness ==
    /\ phase = "called"
    /\ Len(job.inputFiles) = 2
    /\ \E i, k \in 1..2 :
          /\ PathBuf(job.inputFiles[i]) \in DOMAIN path_to_hash
          /\ PathBuf(job.inputFiles[k]) \notin DOMAIN path_to_hash
    /\ ~result.ok

\* C4 as stated: an input declared under another path, with the same content hash,
\* gives another Id.
C4_PathFolded ==
    (phase = "compared" /\ rel = "rename_input" /\ result.ok /\ result2.ok) =>
        result2.id # result.id

\* C4 as amended: only the content hashes are folded in, in the sorted order of
\* the declared paths: an input declared under another path gives the same Id
\* whenever those sequences of content hashes agree.
C4_OnlyHashesFolded ==
    (phase = "compared" /\ rel = "rename_input" /\ result.ok /\ result2.ok) =>
        (HashSeq(job2, path_to_hash2) = HashSeq(job, path_to_hash) => result2.id = result.id)

\* C4 witness: one of two differently hashed inputs renamed, and the Id kept.
C4_Witness ==
    /\ phase = "compared"
    /\ rel = "rename_input"
    /\ result.ok /\ result2.ok
    /\ Len(job.inputFiles) = 2
    /\ path_to_hash[PathBuf(job.inputFiles[1])] # path_to_hash[PathBuf(job.inputFiles[2])]
    /\ Keys(job2.inputFiles) # Keys(job.inputFiles)
    /\ result2.id = result.id

\* C5: declaring an input path once more does not change the Id.
C5_InputsDeduplicated ==
    (phase = "compared" /\ rel = "repeat_input" /\ result.ok) =>
        (result2.ok /\ result2.id = result.id)

C7_ArgumentOrder ==
    (phase = "compared" /\ rel = "reorder_args" /\ result.ok) =>
        (result2.ok /\ result2.id # result.id)

\* C7 witness: two different arguments swapped, both descriptions accepted.
C7_Witness ==
    /\ phase = "compared"
    /\ rel = "reorder_args"
    /\ result.ok /\ result2.ok
    /\ job2.command.args # job.command.args

\* C8: a call on the same description returns the same result in any process and
\* under any lookup that agrees on the declared inputs.
C8_Determinism ==
    (phase = "compared" /\ rel \in {"other_lookup", "rerun"}) =>
        /\ result2.ok = result.ok
        /\ result2.id = result.id

\* C8 witness: an accepted description run in another process with a lookup that
\* has other entries.
C8_Witness ==
    /\ phase = "compared"
    /\ rel = "other_lookup"
    /\ proc2 # proc
    /\ path_to_hash2 # path_to_hash
    /\ Len(job.inputFiles) > 0
    /\ result.ok /\ result2.ok

\* C9: a rejected output is reported with its path and its rule: the absolute
\* message for an absolute output, the `..` message for a relative output with
\* `..`, and neither message is the other or the missing-hash message.
C9_UnsafeOutputError ==
    \A r \in Runs :
        (~r[3].ok /\ AllHashed(r[1], r[2])) =>
            /\ \E i \in 1..Len(r[1].outputs) :
                  LET o == r[1].outputs[i]
                  IN \/ IsAbsolute(o) /\ r[3].err = AbsoluteMsg(o)
                     \/ ~IsAbsolute(o) /\ HasParentDir(o) /\ r[3].err = ParentMsg(o)
            /\ \A i \in 1..Len(r[1].outputs) :
                  LET o == r[1].outputs[i]
                  IN /\ IsAbsolute(o) => r[3].err \notin {ParentMsg(o), NoHashMsg(o)}
                     /\ ~IsAbsolute(o) => r[3].err \notin {AbsoluteMsg(o), NoHashMsg(o)}

\* C9 witness: an output with `..` reported while an absolute output is declared
\* too.
C9_Witness ==
    /\ phase = "called"
    /\ ~result.ok
    /\ \E i, k \in 1..Len(job.outputs) :
          /\ result.err = ParentMsg(job.outputs[i])
          /\ IsAbsolute(job.outputs[k])

(***************************************************************************)
(* Cli::run.  pc is the statement run is at; log records, in order, every  *)
(* call run has made and whether it succeeded; printed is what println!    *)
(* has written; ret is what run returned.                                  *)
(***************************************************************************)
JobIdle ==
    /\ job = GlueJob(BaseCommand, <<>>, <<>>)
    /\ path_to_hash = <<>>
    /\ proc = "p1"
    /\ result = NoResult
    /\ job2 = GlueJob(BaseCommand, <<>>, <<>>)
    /\ path_to_hash2 = <<>>
    /\ proc2 = "p1"
    /\ result2 = NoResult
    /\ rel = "none"
    /\ phase = "idle"

\* The command line: --print-root-output-paths and --worker-threads (0: unset).
InitCli ==
    /\ JobIdle
    /\ pc = "load"
    /\ print_root_output_paths \in BOOLEAN
    /\ worker_threads \in 0..MaxWorkers
    /\ roots = 0
    /\ cursor = 1
    /\ printed = <<>>
    /\ ret = "none"
    /\ log = <<>>

Logged(step, ok) == Append(log, [step |-> step, ok |-> ok])

\* A call whose error is not propagated: run goes on to the next statement.
Unchecked(step, next, context) ==
    /\ \E ok \in BOOLEAN :
          /\ log' = Logged(step, ok)
          /\ pc' = next
          /\ ret' = ret
    /\ UNCHANGED <<print_root_output_paths, worker_threads, roots, cursor, printed>>
    /\ UNCHANGED jobVars

\* A call followed by .context(context)?: on an error run returns it.
Fallible(step, next, context) ==
    /\ \E ok \in BOOLEAN :
          /\ log' = Logged(step, ok)
          /\ pc' = IF ok THEN next ELSE "done"
          /\ ret' = IF ok THEN ret ELSE context
    /\ UNCHANGED <<print_root_output_paths, worker_threads, roots, cursor, printed>>
    /\ UNCHANGED jobVars

\* let rbt = Self::load();
Load ==
    /\ pc = "load"
    /\ log' = Logged("load", TRUE)
    /\ pc' = "open_db"
    /\ UNCHANGED <<print_root_output_paths, worker_threads, roots, cursor, printed, ret>>
    /\ UNCHANGED jobVars

\* let db = self.open_db().context("could not open rbt's database")?;
OpenDb ==
    /\ pc = "open_db"
    /\ Fallible("open_db", "open_store_tree", "could not open rbt's database")

\* db.open_tree("store").context("could not open the store database")?
OpenStoreTree ==
    /\ pc = "open_store_tree"
    /\ Fallible("open_store_tree", "store_new", "could not open the store database")

\* Store::new(..).context("could not open store")?
StoreNew ==
    /\ pc = "store_new"
    /\ Fallible("store_new", "open_hashes_tree", "could not open store")

\* db.open_tree("file_hashes").context("could not open file hashes database")?
OpenHashesTree ==
    /\ pc = "open_hashes_tree"
    /\ Fallible("open_hashes_tree", "add_root", "could not open file hashes database")

\* coordinator::Builder::new(..); builder.add_root(&rbt.default);
AddRoot ==
    /\ pc = "add_root"
    /\ log' = Logged("add_root", TRUE)
    /\ pc' = "build"
    /\ UNCHANGED <<print_root_output_paths, worker_threads, roots, cursor, printed, ret>>
    /\ UNCHANGED jobVars

\* builder.build(): on success the coordinator holds the roots it will report.
Build ==
    /\ pc = "build"
    /\ \E ok \in BOOLEAN, n \in 0..MaxRoots :
          /\ log' = Logged("build", ok)
          /\ pc' = IF ok THEN "async_runtime" ELSE "done"
          /\ ret' = IF ok THEN ret ELSE "could not initialize coordinator"
          /\ roots' = IF ok THEN n ELSE roots
    /\ UNCHANGED <<print_root_output_paths, worker_threads, cursor, printed>>
    /\ UNCHANGED jobVars

\* let runtime = self.async_runtime()?;
AsyncRuntime ==
    /\ pc = "async_runtime"
    /\ Fallible("async_runtime", "run_all", "failed to build async runtime")

\* run_all with its result dropped.
RunAllUnchecked ==
    /\ pc = "run_all"
    /\ Unchecked("run_all", "print", "failed to run jobs")

\* runtime.block_on(coordinator.run_all()).context("failed to run jobs")?
RunAll ==
    /\ pc = "run_all"
    /\ Fallible("run_all", "print", "failed to run jobs")

\* One turn of for root in coordinator.roots() under if self.print_root_output_paths.
PrintRoot ==
    /\ pc = "print"
    /\ print_root_output_paths
    /\ cursor <= roots
    /\ \E ok \in BOOLEAN :
          /\ log' = Logged("store_path", ok)
          /\ printed' = IF ok THEN Append(printed, cursor) ELSE printed
          /\ cursor' = IF ok THEN cursor + 1 ELSE cursor
          /\ pc' = IF ok THEN "print" ELSE "done"
          /\ ret' = IF ok THEN ret ELSE "could not get store path for root"
    /\ UNCHANGED <<print_root_output_paths, worker_threads, roots>>
    /\ UNCHANGED jobVars

\* Ok(())
ReturnOk ==
    /\ pc = "print"
    /\ ~print_root_output_paths \/ cursor > roots
    /\ pc' = "done"
    /\ ret' = "ok"
    /\ UNCHANGED <<print_root_output_paths, worker_threads, roots, cursor, printed, log>>
    /\ UNCHANGED jobVars

NextCli ==
    \/ Load
    \/ OpenDb
    \/ OpenStoreTree
    \/ StoreNew
    \/ OpenHashesTree
    \/ AddRoot
    \/ Build
    \/ AsyncRuntime
    \/ RunAll
    \/ PrintRoot
    \/ ReturnOk

SpecCli == InitCli /\ [][NextCli]_vars

(***************************************************************************)
(* Properties of Cli::run.                                                 *)
(***************************************************************************)
\* The calls of run up to run_all, in the order of the source.
Pipeline ==
    <<"load", "open_db", "open_store_tree", "store_new", "open_hashes_tree",
      "add_root", "build", "async_runtime", "run_all">>

Context(step) ==
    CASE step = "open_db" -> "could not open rbt's database"
      [] step = "open_store_tree" -> "could not open the store database"
      [] step = "store_new" -> "could not open store"
      [] step = "open_hashes_tree" -> "could not open file hashes database"
      [] step = "build" -> "could not initialize coordinator"
      [] step = "async_runtime" -> "failed to build async runtime"
      [] step = "run_all" -> "failed to run jobs"
      [] step = "store_path" -> "could not get store path for root"
      [] OTHER -> "none"

RunAllLogged == {i \in 1..Len(log) : log[i].step = "run_all"}

\* C10: run makes its calls in the order of the pipeline and stops at the first
\* failure, returning that call's error: run_all is called at most once and only
\* after every earlier call succeeded; root paths are resolved and printed only
\* after run_all succeeded and only with print_root_output_paths set; after a
\* failed run_all nothing is printed and run returns an error.
C10_FailFastPipeline ==
    /\ \A i \in 1..Len(log) :
          /\ log[i].step = IF i <= Len(Pipeline) THEN Pipeline[i] ELSE "store_path"
          /\ ~log[i].ok => (i = Len(log) /\ pc = "done" /\ ret = Context(log[i].step))
    /\ Cardinality(RunAllLogged) <= 1
    /\ (printed # <<>> \/ \E i \in 1..Len(log) : log[i].step = "store_path") =>
          /\ print_root_output_paths
          /\ \E i \in RunAllLogged : log[i].ok
    /\ (\E i \in RunAllLogged : ~log[i].ok) =>
          (printed = <<>> /\ pc = "done" /\ ret = "failed to run jobs")
    /\ ret = "ok" => \A i \in 1..Len(log) : log[i].ok
    /\ Len(printed) <= roots

\* C10 witness: run_all failed after every earlier call succeeded, with
\* print_root_output_paths set and a root to print, and run has returned.
C10_Witness ==
    /\ pc = "done"
    /\ print_root_output_paths
    /\ roots > 0
    /\ Len(log) = Len(Pipeline)
    /\ ~log[Len(log)].ok
    /\ printed = <<>>

====
